---- MODULE Spec2Model ----
(***************************************************************************)
(* cargo-goodtimes: the dependency graph built from `cargo metadata`, the  *)
(* reconciliation of cargo's --timings report onto it, and the critical    *)
(* path solver, as a state machine.                                        *)
(*                                                                         *)
(* f64 quantities are fixed-point numbers with four decimals: a value v    *)
(* (seconds in the report, milliseconds in the graph) is the integer       *)
(* v * TicksPerUnit.  Option<T> is a sequence of length at most one.       *)
(* CrateIds are the integers 1..MaxCrates; the code only hashes and        *)
(* compares them.                                                          *)
(***************************************************************************)
EXTENDS Integers, Sequences, FiniteSets

VARIABLES pc, include_deps, metadata, report, graph, iter_order, outcome

vars == <<pc, include_deps, metadata, report, graph, iter_order, outcome>>

----------------------------------------------------------------------------
(* Bounds of the model.                                                    *)

MaxCrates == 3

MaxEdges == 2

MaxPackages == 2

MaxRows == 2

----------------------------------------------------------------------------
(* Representation of values.                                               *)

TicksPerUnit == 10000

Ms(k) == k * TicksPerUnit

None == <<>>

Some(v) == <<v>>

IsSome(o) == o # <<>>

UnwrapOr(o, d) == IF o = <<>> THEN d ELSE o[1]

CrateIds == 1..MaxCrates

\* HashMap::get
Get(map, k) == IF k \in DOMAIN map THEN Some(map[k]) ELSE None

\* HashMap::insert: the new value replaces an old one
Insert(map, k, v) == [x \in (DOMAIN map) \cup {k} |-> IF x = k THEN v ELSE map[x]]

EmptyMap == [x \in {} |-> 0]

Range(s) == {s[i] : i \in 1..Len(s)}

RECURSIVE SeqsUpTo(_, _)
SeqsUpTo(S, n) ==
    IF n = 0 THEN {<<>>}
    ELSE LET shorter == SeqsUpTo(S, n - 1)
         IN  shorter \cup {Append(s, x) : s \in {t \in shorter : Len(t) = n - 1}, x \in S}

NoMetadata == [absent |-> TRUE]

NoReport == [exists |-> FALSE]

RECURSIVE IterationOrders(_)
\* every order in which a HashMap may iterate over the key set S
IterationOrders(S) ==
    IF S = {} THEN {<<>>}
    ELSE UNION {{<<x>> \o p : p \in IterationOrders(S \ {x})} : x \in S}

----------------------------------------------------------------------------
(* model.rs                                                                *)

CrateNode(name, version, is_ws, duration_ms, start_ms, fresh) ==
    [name |-> name, version |-> version, is_workspace_member |-> is_ws,
     duration_ms |-> duration_ms, start_ms |-> start_ms, fresh |-> fresh]

DepEdge(from, to) == [from |-> from, to |-> to]

BuildGraph(nodes, edges, roots, critical_path) ==
    [nodes |-> nodes, edges |-> edges, roots |-> roots,
     critical_path |-> critical_path]

----------------------------------------------------------------------------
(* build.rs: compute_critical_path                                         *)

\* The call depth at which the recursion of longest exhausts the thread's
\* stack and the process aborts.  An acyclic graph never nests deeper than
\* its number of nodes.
StackLimit == MaxCrates + 2

\* lines 163-166: dependency -> its dependents, in edge order
BuildDependents(edges) ==
    [id \in {edges[i].to : i \in 1..Len(edges)} |->
        LET hits == SelectSeq(edges, LAMBDA e : e.to = id)
        IN  [i \in 1..Len(hits) |-> hits[i].from]]

\* lines 182-185
SelfDur(nodes, id) ==
    IF id \in DOMAIN nodes THEN UnwrapOr(nodes[id].duration_ms, 0) ELSE 0

\* a dependent that only equals the best one so far replaces it too
BetterOrEqual(c, best_child_cost) == c >= best_child_cost

\* line 193: a dependent replaces the best one so far
Better(c, best_child_cost) == c > best_child_cost

\* line 200
Total(self_dur, best_child_cost) == self_dur + best_child_cost

Memo(cost, next_on_path, overflow, ret) ==
    [cost |-> cost, next_on_path |-> next_on_path, overflow |-> overflow,
     ret |-> ret]

RECURSIVE longest(_, _, _, _, _)
RECURSIVE VisitDependents(_, _, _, _, _, _)

\* the costs of the dependents added up, one addend for every edge
VisitDependentAdding(dep_id, r, st) ==
    IF ~r.overflow /\ r.ret > 0
    THEN [memo |-> r, best_child_cost |-> st.best_child_cost + r.ret,
          best_child |-> Some(dep_id)]
    ELSE [memo |-> r, best_child_cost |-> st.best_child_cost,
          best_child |-> st.best_child]

\* lines 193-196: the loop state after the call for dep_id returned r
\* st = [memo, best_child_cost, best_child]
VisitDependent(dep_id, r, st) ==
    IF ~r.overflow /\ Better(r.ret, st.best_child_cost)
    THEN [memo |-> r, best_child_cost |-> r.ret, best_child |-> Some(dep_id)]
    ELSE [memo |-> r, best_child_cost |-> st.best_child_cost,
          best_child |-> st.best_child]

\* lines 191-197: the loop over the dependents of one node, from the i-th on
VisitDependents(deps, i, nodes, dependents, st, depth) ==
    IF i > Len(deps) \/ st.memo.overflow THEN st
    ELSE VisitDependents(deps, i + 1, nodes, dependents,
             VisitDependent(deps[i],
                 longest(deps[i], nodes, dependents, st.memo, depth + 1), st),
             depth)

\* lines 182-185 and 200-205: what the call for id leaves once its loop has
\* ended in st
Record(id, nodes, st) ==
    IF st.memo.overflow THEN st.memo
    ELSE LET total == Total(SelfDur(nodes, id), st.best_child_cost)
         IN  Memo(Insert(st.memo.cost, id, total),
                  IF IsSome(st.best_child)
                  THEN Insert(st.memo.next_on_path, id, st.best_child[1])
                  ELSE st.memo.next_on_path,
                  FALSE, total)

\* lines 171-206.  memo carries the two maps the code passes by &mut; the
\* result adds the returned cost (ret) and whether the stack overflowed.
longest(id, nodes, dependents, memo, depth) ==
    IF memo.overflow THEN memo
    ELSE IF id \in DOMAIN memo.cost
    THEN [memo EXCEPT !.ret = memo.cost[id]]
    ELSE IF depth > StackLimit
    THEN [memo EXCEPT !.overflow = TRUE]
    ELSE Record(id, nodes,
                VisitDependents(UnwrapOr(Get(dependents, id), <<>>), 1,
                                nodes, dependents,
                                [memo |-> memo, best_child_cost |-> 0,
                                 best_child |-> None],
                                depth))

RECURSIVE LongestAll(_, _, _, _, _)
\* lines 216-219
LongestAll(all_ids, i, nodes, dependents, memo) ==
    IF i > Len(all_ids) \/ memo.overflow THEN memo
    ELSE LongestAll(all_ids, i + 1, nodes, dependents,
                    longest(all_ids[i], nodes, dependents, memo, 1))

\* lines 208-214
Leaves(all_ids, edges) ==
    LET has_deps == {edges[i].from : i \in 1..Len(edges)}
    IN  SelectSeq(all_ids, LAMBDA id : id \notin has_deps)

\* lines 225-228: the comparison max_by is given
CostOrZero(cost, id) == UnwrapOr(Get(cost, id), 0)

\* the comparison turned round: the earlier element is kept when it is smaller
KeepEarlierWhenLess(cost, a, b) == CostOrZero(cost, a) < CostOrZero(cost, b)

\* Iterator::max_by keeps the later of two elements unless the earlier one
\* compares Greater: of several maxima the last is returned.
KeepEarlier(cost, a, b) == CostOrZero(cost, a) > CostOrZero(cost, b)

RECURSIVE MaxByFrom(_, _, _, _)
MaxByFrom(seq, i, best, cost) ==
    IF i > Len(seq) THEN best
    ELSE MaxByFrom(seq, i + 1,
                   IF KeepEarlier(cost, best, seq[i]) THEN best ELSE seq[i],
                   cost)

\* lines 221-229
MaxBy(seq, cost) ==
    IF seq = <<>> THEN None ELSE Some(MaxByFrom(seq, 2, seq[1], cost))

RECURSIVE Walk(_, _)
\* lines 234-240
Walk(cur, next_on_path) ==
    <<cur>> \o (IF cur \in DOMAIN next_on_path
                THEN Walk(next_on_path[cur], next_on_path)
                ELSE <<>>)

\* lines 221-243: the path, once every cost is in memo
PathFrom(g, all_ids, memo) ==
    IF memo.overflow
    THEN [overflow |-> TRUE, critical_path |-> g.critical_path,
          cost |-> EmptyMap, next_on_path |-> EmptyMap]
    ELSE LET start == MaxBy(Leaves(all_ids, g.edges) \o all_ids, memo.cost)
         IN  [overflow |-> FALSE,
              critical_path |-> IF IsSome(start)
                                THEN Walk(start[1], memo.next_on_path)
                                ELSE <<>>,
              cost |-> memo.cost, next_on_path |-> memo.next_on_path]

\* lines 161-244.  all_ids is graph.nodes.keys() in the map's iteration order.
\* The result is the new critical_path, with the two local maps, or the
\* overflow of the stack.
compute_critical_path(g, all_ids) ==
    PathFrom(g, all_ids,
             LongestAll(all_ids, 1, g.nodes, BuildDependents(g.edges),
                        Memo(EmptyMap, EmptyMap, FALSE, 0)))

----------------------------------------------------------------------------
(* metadata.rs: load_dependency_graph                                      *)

RECURSIVE Ascending(_)
\* the elements of a set of integers, smallest first
Ascending(S) ==
    IF S = {} THEN <<>>
    ELSE LET m == CHOOSE x \in S : \A y \in S : x <= y
         IN  <<m>> \o Ascending(S \ {m})

\* cargo_metadata::Node, as far as the code reads it
ResolveNode(id, deps) == [id |-> id, deps |-> deps]

\* cargo_metadata::Metadata.  exec_ok: `cargo metadata` ran and its output
\* parsed; resolve: Option<Resolve>, the list of its nodes; packages: the
\* package list, id -> (name, version); workspace_members: a list of ids.
Metadata(exec_ok, resolve, packages, workspace_members) ==
    [exec_ok |-> exec_ok, resolve |-> resolve, packages |-> packages,
     workspace_members |-> workspace_members]

\* every dependency kept, whether or not its target is in scope
NodeEdgesUnfiltered(node, include, ws_members) ==
    [i \in 1..Len(node.deps) |-> DepEdge(node.id, node.deps[i])]

\* lines 51-65: the edges one resolve node contributes
NodeEdges(node, include, ws_members) ==
    LET kept == SelectSeq(node.deps,
                          LAMBDA dep : include \/ dep \in ws_members)
    IN  [i \in 1..Len(kept) |-> DepEdge(node.id, kept[i])]

\* lines 28-34: whether a resolve node becomes a node of the graph
NodeIncluded(node, include, ws_members, pkg_map) ==
    /\ include \/ node.id \in ws_members
    /\ node.id \in DOMAIN pkg_map

RECURSIVE LoadNodes(_, _, _, _, _, _)
\* lines 27-66: the loop over resolve.nodes, from the i-th on
LoadNodes(resolve_nodes, i, include, ws_members, pkg_map, g) ==
    IF i > Len(resolve_nodes) THEN g
    ELSE LET node == resolve_nodes[i]
             pkg == pkg_map[node.id]
         IN  LoadNodes(resolve_nodes, i + 1, include, ws_members, pkg_map,
                 IF NodeIncluded(node, include, ws_members, pkg_map)
                 THEN [g EXCEPT
                         !.nodes = Insert(@, node.id,
                            CrateNode(pkg.name, pkg.version,
                                      node.id \in ws_members, None, None, FALSE)),
                         !.edges = @ \o NodeEdges(node, include, ws_members)]
                 ELSE g)

\* lines 6-80, for metadata that has a resolve
load_dependency_graph(md, include) ==
    LoadNodes(md.resolve[1], 1, include, Range(md.workspace_members),
              md.packages,
              BuildGraph(EmptyMap, <<>>, md.workspace_members, <<>>))

EmptyGraph == BuildGraph(EmptyMap, <<>>, <<>>, <<>>)

\* main.rs lines 18-19 with metadata.rs lines 6-80.  The new map iterates in
\* an order of its own.
LoadDependencyGraph ==
    /\ pc = "load"
    /\ IF ~metadata.exec_ok
       THEN /\ pc' = "failed"
            /\ outcome' = "cargo metadata failed"
            /\ UNCHANGED <<graph, iter_order>>
       ELSE IF ~IsSome(metadata.resolve)
       THEN /\ pc' = "failed"
            /\ outcome' = "no dependency resolution found"
            /\ UNCHANGED <<graph, iter_order>>
       ELSE /\ pc' = "clean"
            /\ outcome' = outcome
            /\ graph' = load_dependency_graph(metadata, include_deps)
            /\ iter_order' \in IterationOrders(DOMAIN graph'.nodes)
    /\ UNCHANGED <<include_deps, metadata, report>>

----------------------------------------------------------------------------
(* build.rs: parse_unit_data and apply_timings                             *)

\* One record of UNIT_DATA.  decodes: whether serde can read it as a
\* UnitTiming (every field present and of its type); start and duration are
\* seconds, in ticks.
UnitTiming(name, version, target, start, duration) ==
    [decodes |-> TRUE, name |-> name, version |-> version, target |-> target,
     start |-> start, duration |-> duration]

UndecodableRecord ==
    [decodes |-> FALSE, name |-> "", version |-> "", target |-> "",
     start |-> 0, duration |-> 0]

\* The file target/cargo-timings/cargo-timing.html.  has_marker: the text
\* "const UNIT_DATA = " occurs; has_end: "];" occurs after it; records: the
\* JSON array between the two.
Report(exists, has_marker, has_end, records) ==
    [exists |-> exists, has_marker |-> has_marker, has_end |-> has_end,
     records |-> records]

Ok(v) == [ok |-> TRUE, value |-> v, error |-> ""]

Err(e) == [ok |-> FALSE, value |-> <<>>, error |-> e]

\* the records that decode, the others dropped
DecodeUnitsSkippingBad(records) ==
    Ok(SelectSeq(records, LAMBDA r : r.decodes))

\* line 156: serde_json::from_str::<Vec<UnitTiming>>, all records or none
DecodeUnits(records) ==
    IF \A i \in 1..Len(records) : records[i].decodes
    THEN Ok(records)
    ELSE Err("invalid UNIT_DATA")

\* lines 144-158
parse_unit_data(html) ==
    IF ~html.has_marker THEN Err("UNIT_DATA not found in timing HTML")
    ELSE IF ~html.has_end THEN Err("UNIT_DATA end not found")
    ELSE DecodeUnits(html.records)

\* line 127: the duration, in seconds, below which a crate counts as cached
Epsilon == 10

\* lines 125-126: seconds to milliseconds
MsPerSecond == 1000

\* line 108: the start an aggregate begins with, above every real start
F64Max == 2000000000

Min(a, b) == IF a < b THEN a ELSE b

\* line 113: target.contains("build script"), over the labels cargo writes
ContainsBuildScript(target) == target \in {"build script", "build script (run)"}

\* lines 108-110 and 114-116: one unit added to the aggregate of its key
Accumulate(timings, key, unit) ==
    LET entry == UnwrapOr(Get(timings, key), <<F64Max, 0>>)
    IN  Insert(timings, key,
               <<Min(entry[1], unit.start), entry[2] + unit.duration>>)

\* build scripts counted with the rest
IsLibUnitAlways(unit) == TRUE

\* line 113: whether a unit counts for the preferred aggregate
IsLibUnit(unit) == ~ContainsBuildScript(unit.target)

RECURSIVE Aggregate(_, _, _)
\* lines 104-118: agg = [lib_timings, all_timings], units from the i-th on
Aggregate(units, i, agg) ==
    IF i > Len(units) THEN agg
    ELSE LET unit == units[i]
             key == <<unit.name, unit.version>>
         IN  Aggregate(units, i + 1,
                 [all_timings |-> Accumulate(agg.all_timings, key, unit),
                  lib_timings |->
                      IF IsLibUnit(unit)
                      THEN Accumulate(agg.lib_timings, key, unit)
                      ELSE agg.lib_timings])

\* line 123: lib_timings.get(&key).or_else(|| all_timings.get(&key))
ChooseTiming(agg, key) ==
    IF key \in DOMAIN agg.lib_timings THEN Some(agg.lib_timings[key])
    ELSE Get(agg.all_timings, key)

\* the threshold itself counted as cached
IsFreshInclusive(duration) == duration <= Epsilon

\* line 127
IsFresh(duration) == duration < Epsilon

\* lines 124-128: the node given the timing found for it
SetTiming(node, timing) ==
    IF IsSome(timing)
    THEN [node EXCEPT !.start_ms = Some(timing[1][1] * MsPerSecond),
                      !.duration_ms = Some(timing[1][2] * MsPerSecond),
                      !.fresh = IsFresh(timing[1][2])]
    ELSE node

\* lines 122-128: one node after the loop body
TimeNode(node, agg) ==
    SetTiming(node, ChooseTiming(agg, <<node.name, node.version>>))

\* lines 121-129
TimeAll(g, agg) ==
    [g EXCEPT !.nodes = [id \in DOMAIN g.nodes |-> TimeNode(g.nodes[id], agg)]]

\* lines 102-129
TimeNodes(g, units) ==
    TimeAll(g, Aggregate(units, 1,
                         [lib_timings |-> EmptyMap, all_timings |-> EmptyMap]))

\* line 131 and 132
SolveTimed(timed, solved) ==
    IF solved.overflow
    THEN [graph |-> timed, error |-> "", overflow |-> TRUE]
    ELSE [graph |-> [timed EXCEPT !.critical_path = solved.critical_path],
          error |-> "", overflow |-> FALSE]

\* lines 98-132, once the units are parsed
Reconcile(timed, all_ids) ==
    SolveTimed(timed, compute_critical_path(timed, all_ids))

\* lines 96-132, given what parse_unit_data returned
ApplyParsed(g, all_ids, units) ==
    IF ~units.ok
    THEN [graph |-> g, error |-> units.error, overflow |-> FALSE]
    ELSE Reconcile(TimeNodes(g, units.value), all_ids)

\* lines 84-133.  target_dir_ok: find_target_dir succeeded.  The result is
\* the graph as the call leaves it, with the error it returns ("" for Ok) or
\* the overflow of the stack in compute_critical_path.
apply_timings(g, all_ids, html, target_dir_ok) ==
    IF ~target_dir_ok
    THEN [graph |-> g, error |-> "cargo metadata failed", overflow |-> FALSE]
    ELSE IF ~html.exists
    THEN [graph |-> g, error |-> "timing HTML not found", overflow |-> FALSE]
    ELSE ApplyParsed(g, all_ids, parse_unit_data(html))

\* main.rs line 59
ApplyTimings ==
    /\ pc = "apply_timings"
    /\ \E target_dir_ok \in BOOLEAN :
         \E r \in {apply_timings(graph, iter_order, report, target_dir_ok)} :
             /\ graph' = r.graph
             /\ IF r.overflow
                THEN pc' = "aborted" /\ outcome' = "stack overflow"
                ELSE IF r.error # ""
                THEN pc' = "failed" /\ outcome' = r.error
                ELSE pc' = "find_target_dir" /\ outcome' = outcome
    /\ UNCHANGED <<include_deps, metadata, report, iter_order>>

----------------------------------------------------------------------------
(* The packages the model draws from: two distinct names, and two versions *)
(* of one name.                                                            *)

PackageName(id) == IF id = 2 THEN "q" ELSE IF id = 4 THEN "r" ELSE "p"

PackageVersion(id) == IF id = 3 THEN "2.0" ELSE "1.0"

Package(id) == [name |-> PackageName(id), version |-> PackageVersion(id)]

PackageIds == 1..MaxPackages

\* Resolved metadata over the ids 1..MaxPackages: any subset of them has a
\* package entry, any subset is a workspace member, any subset has a resolve
\* node (listed by ascending id), each node depending on any subset of the
\* ids.  cargo itself lists a package for every node and a node for every
\* dependency; the other cases are metadata the function still accepts.
IsResolvedMetadata(md) ==
    \E pk \in SUBSET PackageIds, ws \in SUBSET PackageIds, rn \in SUBSET PackageIds :
        \E deps \in [rn -> SUBSET PackageIds] :
            md = Metadata(TRUE,
                          Some([i \in 1..Cardinality(rn) |->
                                   ResolveNode(Ascending(rn)[i],
                                               Ascending(deps[Ascending(rn)[i]]))]),
                          [id \in pk |-> Package(id)],
                          Ascending(ws))

\* `cargo metadata` failed, or gave no resolve
IsUnresolvedMetadata(md) ==
    \E ok \in BOOLEAN :
        md = Metadata(ok, None, [id \in PackageIds |-> Package(id)],
                      Ascending(PackageIds))

InitLoad ==
    /\ pc = "load"
    /\ include_deps \in BOOLEAN
    /\ IsResolvedMetadata(metadata) \/ IsUnresolvedMetadata(metadata)
    /\ report = NoReport
    /\ graph = EmptyGraph
    /\ iter_order = <<>>
    /\ outcome = "running"

NextLoad == LoadDependencyGraph

SpecLoad == InitLoad /\ [][NextLoad]_vars

----------------------------------------------------------------------------
(* The timing reconciler on its own: a workspace of three packages,        *)
(* p 1.0 -> q 1.0 -> p 2.0, the last depending on nothing or (as a         *)
(* dev-dependency may) back on the first, and every report of at most      *)
(* MaxRows records.                                                        *)

TimingMetadata(cyclic) ==
    Metadata(TRUE,
             Some(<<ResolveNode(1, <<2>>), ResolveNode(2, <<3>>),
                    ResolveNode(3, IF cyclic THEN <<1>> ELSE <<>>)>>),
             [id \in 1..3 |-> Package(id)],
             <<1, 2, 3>>)

\* seconds, in ticks: 0.0001 (what is left of a cached unit's 0.0000001 at
\* this resolution), 0.0009, 0.3, 0.5 and 2.0
RowDurations == {1, 9, 3000, 5000, 20000}

RowStarts == {0, 2500}

RowTargets == {"lib", "build script"}

\* every row of package p 1.0, two rows of q 1.0, and a record that does
\* not decode
Records ==
    {UnitTiming("p", "1.0", t, s, d) : t \in RowTargets, s \in RowStarts, d \in RowDurations}
    \cup {UnitTiming("q", "1.0", t, 2500, 3000) : t \in RowTargets}
    \cup {UndecodableRecord}

IsReport(html) ==
    \/ html = Report(FALSE, FALSE, FALSE, <<>>)
    \/ html = Report(TRUE, FALSE, FALSE, <<>>)
    \/ html = Report(TRUE, TRUE, FALSE, <<>>)
    \/ \E records \in SeqsUpTo(Records, MaxRows) :
           html = Report(TRUE, TRUE, TRUE, records)

InitTimings ==
    /\ pc = "apply_timings"
    /\ include_deps = TRUE
    /\ \E cyclic \in BOOLEAN : metadata = TimingMetadata(cyclic)
    /\ IsReport(report)
    /\ graph = load_dependency_graph(metadata, include_deps)
    /\ iter_order \in IterationOrders(DOMAIN graph.nodes)
    /\ outcome = "running"

NextTimings == ApplyTimings

SpecTimings == InitTimings /\ [][NextTimings]_vars

----------------------------------------------------------------------------
(* main.rs: one run of the program.                                        *)

\* An external step whose error is noted and not returned: main goes on.
ExternalStepIgnoringFailure(from_pc, to_pc, what) ==
    /\ pc = from_pc
    /\ pc' = to_pc
    /\ \E ok \in BOOLEAN : outcome' = IF ok THEN outcome ELSE what
    /\ UNCHANGED <<include_deps, metadata, report, graph, iter_order>>

\* An external step of main (a cargo command, a file operation) that either
\* succeeds and lets main go on, or fails and ends the run with its error.
ExternalStep(from_pc, to_pc, what) ==
    /\ pc = from_pc
    /\ \E ok \in BOOLEAN :
           IF ok THEN pc' = to_pc /\ outcome' = outcome
           ELSE pc' = "failed" /\ outcome' = what
    /\ UNCHANGED <<include_deps, metadata, report, graph, iter_order>>

\* line 15
ResolveManifest == ExternalStep("start", "load", "manifest not found")

\* lines 22-28
CleanAll ==
    /\ include_deps
    /\ ExternalStep("clean", "build", "cargo clean failed")

\* lines 29-37
PrebuildDeps ==
    /\ ~include_deps
    /\ ExternalStep("clean", "clean_workspace", "cargo check (pre-build deps) failed")

\* lines 40-48
CleanWorkspace == ExternalStep("clean_workspace", "build", "cargo clean failed")

\* lines 53-58
RunBuild == ExternalStep("build", "apply_timings", "cargo check failed")

\* line 62
FindTargetDir == ExternalStep("find_target_dir", "render", "cargo metadata failed")

\* line 63
WriteAndOpen == ExternalStep("render", "done", "write failed")

\* a workspace member 1 that depends on the external package 2
MixedMetadata ==
    Metadata(TRUE, Some(<<ResolveNode(1, <<2>>), ResolveNode(2, <<>>)>>),
             [id \in 1..2 |-> Package(id)], <<1>>)

IsRunMetadata(md) ==
    \/ \E cyclic \in BOOLEAN : md = TimingMetadata(cyclic)
    \/ md = MixedMetadata
    \/ IsUnresolvedMetadata(md)

IsRunReport(html) ==
    \/ html = Report(FALSE, FALSE, FALSE, <<>>)
    \/ html = Report(TRUE, FALSE, FALSE, <<>>)
    \/ html = Report(TRUE, TRUE, FALSE, <<>>)
    \/ \E records \in {<<>>, <<UndecodableRecord>>,
                       <<UnitTiming("p", "1.0", "lib", 0, 20000)>>,
                       <<UnitTiming("p", "1.0", "lib", 2500, 20000),
                         UnitTiming("p", "1.0", "build script", 0, 5000)>>,
                       <<UnitTiming("q", "1.0", "build script", 0, 3000),
                         UnitTiming("p", "2.0", "lib", 0, 1)>>} :
           html = Report(TRUE, TRUE, TRUE, records)

Init ==
    /\ pc = "start"
    /\ include_deps \in BOOLEAN
    /\ IsRunMetadata(metadata)
    /\ IsRunReport(report)
    /\ graph = EmptyGraph
    /\ iter_order = <<>>
    /\ outcome = "running"

Next ==
    \/ ResolveManifest
    \/ LoadDependencyGraph
    \/ CleanAll
    \/ PrebuildDeps
    \/ CleanWorkspace
    \/ RunBuild
    \/ ApplyTimings
    \/ FindTargetDir
    \/ WriteAndOpen

Spec == Init /\ [][Next]_vars

----------------------------------------------------------------------------
(* The critical path solver on its own: the graphs apply_timings can hand  *)
(* to compute_critical_path (build.rs line 131).                           *)

PathDurations == {None, Some(Ms(0)), Some(Ms(10)), Some(Ms(20)), Some(Ms(30))}

\* a node as the loop of apply_timings leaves it (lines 121-129)
TimedNode(id, duration_ms) ==
    CrateNode(PackageName(id), PackageVersion(id), TRUE, duration_ms,
              IF IsSome(duration_ms) THEN Some(0) ELSE None,
              IsSome(duration_ms) /\ duration_ms[1] < Ms(1))

EdgeChoices(n) == {DepEdge(f, t) : f \in 1..n, t \in CrateIds}

SmallDurations == {None, Some(Ms(10))}

DiamondDurations == {None, Some(Ms(0)), Some(Ms(10)), Some(Ms(20))}

\* Every graph of at most MaxCrates nodes and MaxEdges edges whose edges
\* start at a node (load_dependency_graph pushes an edge only from a node it
\* has just inserted); an edge may end anywhere, at its own start as well.
\* The nodes are numbered in the order the map iterates over them: every
\* other graph with its iteration order is a renaming of one of these, and
\* the solver only compares and hashes ids.
IsSmallGraph(g, order) ==
    \E n \in 0..MaxCrates :
        \E dur \in [1..n -> SmallDurations], edges \in SeqsUpTo(EdgeChoices(n), MaxEdges) :
            /\ g = BuildGraph([id \in 1..n |-> TimedNode(id, dur[id])], edges, [i \in 1..n |-> i], <<>>)
            /\ order = [i \in 1..n |-> i]

ChainEdges == <<DepEdge(1, 2), DepEdge(2, 3)>>

\* The chain A -> B -> C (A = 1, B = 2, C = 3) with every choice of durations
\* and every iteration order.
IsChainGraph(g, order) ==
    \E dur \in [1..3 -> PathDurations] :
        /\ g = BuildGraph([id \in 1..3 |-> TimedNode(id, dur[id])], ChainEdges, <<1, 2, 3>>, <<>>)
        /\ order \in IterationOrders(1..3)

DiamondEdges == <<DepEdge(1, 2), DepEdge(1, 3), DepEdge(2, 4), DepEdge(3, 4)>>

\* The diamond A -> B, A -> C, B -> D, C -> D (A = 1, B = 2, C = 3, D = 4)
\* with every choice of durations, its two last edges in either order, and
\* every iteration order.
IsDiamondGraph(g, order) ==
    \E dur \in [1..4 -> DiamondDurations] :
        \E edges \in {DiamondEdges,
                      <<DepEdge(1, 2), DepEdge(1, 3), DepEdge(3, 4), DepEdge(2, 4)>>} :
            /\ g = BuildGraph([id \in 1..4 |-> TimedNode(id, dur[id])], edges, <<1, 2, 3, 4>>, <<>>)
            /\ order \in IterationOrders(1..4)

InitPath ==
    /\ pc = "solve"
    /\ \/ IsSmallGraph(graph, iter_order)
       \/ IsChainGraph(graph, iter_order)
       \/ IsDiamondGraph(graph, iter_order)
    /\ include_deps = FALSE
    /\ metadata = NoMetadata
    /\ report = NoReport
    /\ outcome = "running"

\* compute_critical_path, lines 161-244
SolveStep(from_pc, to_pc) ==
    /\ pc = from_pc
    /\ \E r \in {compute_critical_path(graph, iter_order)} :
           IF r.overflow
           THEN /\ pc' = "aborted"
                /\ outcome' = "stack overflow"
                /\ UNCHANGED graph
           ELSE /\ pc' = to_pc
                /\ outcome' = outcome
                /\ graph' = [graph EXCEPT !.critical_path = r.critical_path]
    /\ UNCHANGED <<include_deps, metadata, report, iter_order>>

Solve == SolveStep("solve", "solved")

\* the solver run once more on the graph it has annotated
SolveAgain == SolveStep("solved", "solved_again")

NextPath == Solve \/ SolveAgain

SpecPath == InitPath /\ [][NextPath]_vars

----------------------------------------------------------------------------
(* What the claims speak of, defined from the graph alone.                 *)

EdgeSet(g) == {g.edges[i] : i \in 1..Len(g.edges)}

\* the nodes that depend on n
DependentsOf(g, n) == {e.from : e \in {x \in EdgeSet(g) : x.to = n}}

RECURSIVE ReachedFrom(_, _)
\* S with everything its members depend on, directly or not
ReachedFrom(g, S) ==
    LET more == S \cup {e.to : e \in {x \in EdgeSet(g) : x.from \in S}}
    IN  IF more = S THEN S ELSE ReachedFrom(g, more)

\* no edge leads to a node from which its own start is reached
Acyclic(g) == \A e \in EdgeSet(g) : e.from \notin ReachedFrom(g, {e.to})

DurationOf(g, n) == IF g.nodes[n].duration_ms = None THEN 0 ELSE g.nodes[n].duration_ms[1]

MaxOf(S) == CHOOSE x \in S : \A y \in S : y <= x

RECURSIVE CostOf(_, _)
\* cost(n) = duration(n) + the maximum cost over n's dependents, 0 without any
CostOf(g, n) ==
    DurationOf(g, n) + MaxOf({0} \cup {CostOf(g, d) : d \in DependentsOf(g, n)})

RECURSIVE SumDurations(_, _)
SumDurations(g, path) ==
    IF path = <<>> THEN 0
    ELSE DurationOf(g, Head(path)) + SumDurations(g, Tail(path))

MaxCost(g) == MaxOf({0} \cup {CostOf(g, n) : n \in DOMAIN g.nodes})

\* path is a chain of the cost function that starts at a costliest node
IsCostChain(g, path) ==
    /\ path # <<>>
    /\ \A i \in 1..Len(path) : path[i] \in DOMAIN g.nodes
    /\ CostOf(g, path[1]) = MaxCost(g)
    /\ \A i \in 1..(Len(path) - 1) :
          /\ path[i + 1] \in DependentsOf(g, path[i])
          /\ CostOf(g, path[i + 1]) =
                 MaxOf({CostOf(g, d) : d \in DependentsOf(g, path[i])})
    /\ SumDurations(g, path) = MaxCost(g)

\* compute_critical_path has returned
Solved == pc \in {"solved", "solved_again"}

ChainExample ==
    BuildGraph([id \in 1..3 |-> TimedNode(id, Some(Ms(10 * id)))],
               ChainEdges, <<1, 2, 3>>, <<>>)

----------------------------------------------------------------------------
(* The claims.                                                             *)

\* C1: for every acyclic graph, once compute_critical_path has run, the
\* critical path of a graph with nodes starts at a node of globally maximum
\* cost, each later element is a dependent of the one before it with the
\* maximum cost among that node's dependents, and the durations along the
\* path sum to the maximum cost; the chain A -> B -> C with 10, 20 and 30 ms
\* gets the path [C, B, A], of total 60 ms.
C1_CriticalPathIsCostChain ==
    (Solved /\ Acyclic(graph)) =>
        /\ (DOMAIN graph.nodes = {}) => graph.critical_path = <<>>
        /\ (DOMAIN graph.nodes # {}) => IsCostChain(graph, graph.critical_path)
        /\ ([graph EXCEPT !.critical_path = <<>>] = ChainExample) =>
               /\ graph.critical_path = <<3, 2, 1>>
               /\ SumDurations(graph, graph.critical_path) = Ms(60)

C1_Witness ==
    /\ Solved
    /\ [graph EXCEPT !.critical_path = <<>>] = ChainExample
    /\ graph.critical_path = <<3, 2, 1>>

\* C2: compute_critical_path terminates on every finite graph, a graph with
\* a self-loop or a longer cycle included: the recursion never exhausts the
\* stack.
C2_SolverTerminates == outcome # "stack overflow"

\* C3: in every graph load_dependency_graph returns, with either value of
\* include_deps and for any resolved metadata, both ends of every edge are
\* keys of nodes.
C3_NoDanglingEdges ==
    (pc = "clean") =>
        \A e \in EdgeSet(graph) :
            e.from \in DOMAIN graph.nodes /\ e.to \in DOMAIN graph.nodes

WorkspaceMembers == Range(metadata.workspace_members)

\* C4: when load_dependency_graph is called with include_deps = false,
\* every node of the graph it returns is a workspace member and both ends of
\* every edge are workspace members.
C4_PrunedToWorkspace ==
    (pc = "clean" /\ ~include_deps) =>
        /\ \A id \in DOMAIN graph.nodes :
              id \in WorkspaceMembers /\ graph.nodes[id].is_workspace_member
        /\ \A e \in EdgeSet(graph) :
              e.from \in WorkspaceMembers /\ e.to \in WorkspaceMembers

\* a graph with an edge, pruned from a resolve in which a workspace member
\* depends on a package outside the workspace
C4_Witness ==
    /\ pc = "clean"
    /\ ~include_deps
    /\ graph.edges # <<>>
    /\ \E i \in 1..Len(metadata.resolve[1]) :
          /\ metadata.resolve[1][i].id \in WorkspaceMembers
          /\ metadata.resolve[1][i].id \in DOMAIN graph.nodes
          /\ \E j \in 1..Len(metadata.resolve[1][i].deps) :
                metadata.resolve[1][i].deps[j] \notin WorkspaceMembers

\* the indices of the report's rows for a node's (name, version)
RowsOf(node) ==
    {i \in 1..Len(report.records) :
        /\ report.records[i].name = node.name
        /\ report.records[i].version = node.version}

\* those among them that are not build-script rows
LibRowsOf(node) ==
    {i \in RowsOf(node) : ~ContainsBuildScript(report.records[i].target)}

\* the rows a node's timing is taken from
ChosenRows(node) ==
    IF LibRowsOf(node) # {} THEN LibRowsOf(node) ELSE RowsOf(node)

RECURSIVE SumOfDurations(_)
\* the sum of the durations (seconds) of the rows with the indices I
SumOfDurations(I) ==
    IF I = {} THEN 0
    ELSE LET i == CHOOSE x \in I : TRUE
         IN  report.records[i].duration + SumOfDurations(I \ {i})

\* the least start (seconds) among the rows with the indices I
MinOfStarts(I) ==
    CHOOSE x \in {report.records[i].start : i \in I} :
        \A i \in I : x <= report.records[i].start

TimingsApplied == pc = "find_target_dir"

\* C5: after apply_timings succeeds, a node with a non-build-script row for
\* its (name, version) has duration_ms = 1000 * the sum of the durations of
\* exactly those rows and start_ms = 1000 * the least of their starts; a
\* node with build-script rows only has both taken over all its rows; a node
\* with no row has both unset.  Rows {lib 2.0 s, build script 0.5 s} give
\* 2000 ms and a lone build-script row of 0.3 s gives 300 ms.
C5_AggregatedTiming ==
    TimingsApplied =>
        \A id \in DOMAIN graph.nodes :
            LET node == graph.nodes[id]
            IN  IF ChosenRows(node) = {}
                THEN node.duration_ms = None /\ node.start_ms = None
                ELSE /\ node.duration_ms = Some(1000 * SumOfDurations(ChosenRows(node)))
                     /\ node.start_ms = Some(1000 * MinOfStarts(ChosenRows(node)))

\* the first example: p has a lib row of 2.0 s and a build-script row of
\* 0.5 s, and gets 2000 ms, while the two other nodes stay unset
C5_Witness ==
    /\ TimingsApplied
    /\ Len(report.records) = 2
    /\ \E i, j \in 1..2 :
          /\ report.records[i] = UnitTiming("p", "1.0", "lib", 2500, 20000)
          /\ report.records[j] = UnitTiming("p", "1.0", "build script", 0, 5000)
    /\ graph.nodes[1].duration_ms = Some(Ms(2000))
    /\ graph.nodes[1].start_ms = Some(Ms(250))
    /\ graph.nodes[2].duration_ms = None
    /\ graph.nodes[3].duration_ms = None

ReportUnusable ==
    \/ ~report.exists
    \/ ~report.has_marker
    \/ ~report.has_end
    \/ \E i \in 1..Len(report.records) : ~report.records[i].decodes

\* C6: if the timing report is absent, has no UNIT_DATA marker, has no
\* closing delimiter after it, or holds a record that does not decode,
\* apply_timings returns an error and leaves the graph as it was.
C6_UnusableReportChangesNothing ==
    [][(pc = "apply_timings" /\ ReportUnusable) =>
          (pc' = "failed" /\ outcome' # "running" /\ graph' = graph)]_vars

\* a report in which a record that decodes stands beside one that does
\* not: the run has failed and no node has a timing
C6_Witness ==
    /\ pc = "failed"
    /\ report.exists /\ report.has_marker /\ report.has_end
    /\ \E i, j \in 1..Len(report.records) :
          /\ ~report.records[i].decodes
          /\ report.records[j].decodes
          /\ report.records[j].name = "p"
    /\ outcome = "invalid UNIT_DATA"
    /\ \A id \in DOMAIN graph.nodes :
          /\ graph.nodes[id].duration_ms = None
          /\ graph.nodes[id].start_ms = None
          /\ ~graph.nodes[id].fresh
    /\ graph.critical_path = <<>>

\* C7: after apply_timings succeeds, a node that received a timing has
\* fresh = true exactly when the aggregated duration chosen for it is below
\* 0.001 s, and a node that received none has fresh = false.
C7_FreshBelowEpsilon ==
    TimingsApplied =>
        \A id \in DOMAIN graph.nodes :
            LET node == graph.nodes[id]
            IN  IF ChosenRows(node) = {}
                THEN ~node.fresh
                ELSE node.fresh <=>
                         (1000 * SumOfDurations(ChosenRows(node)) < TicksPerUnit)

\* a cached unit's negligible row makes p fresh, a row of 0.3 s leaves q
\* not fresh, and the node without a row is not fresh
C7_Witness ==
    /\ TimingsApplied
    /\ \E i, j \in 1..Len(report.records) :
          /\ report.records[i].name = "p" /\ report.records[i].duration = 1
          /\ report.records[j].name = "q" /\ report.records[j].duration = 3000
    /\ graph.nodes[1].fresh
    /\ ~graph.nodes[2].fresh
    /\ ~graph.nodes[3].fresh

IsDiamond(g) ==
    /\ DOMAIN g.nodes = 1..4
    /\ EdgeSet(g) = Range(DiamondEdges)
    /\ Len(g.edges) = 4

\* in the diamond with B and C of one duration, whatever follows D on the
\* path is the dependent of D that the edge sequence lists first
DiamondTieBrokenByEdgeOrder(g) ==
    (IsDiamond(g) /\ DurationOf(g, 2) = DurationOf(g, 3)) =>
        \A i \in 1..(Len(g.critical_path) - 1) :
            (g.critical_path[i] = 4) => g.critical_path[i + 1] = g.edges[3].from

\* C8: compute_critical_path is deterministic under ties: on one graph
\* (nodes, iteration order, edge sequence and durations) it yields one path,
\* which on the diamond with B and C tied is fixed by the edge sequence, and
\* a second run on the graph the first one has annotated changes nothing.
C8_DeterministicUnderTies ==
    [][(pc' \in {"solved", "solved_again"}) =>
          /\ DiamondTieBrokenByEdgeOrder(graph')
          /\ (pc = "solved") => graph' = graph]_vars

\* the diamond with all four durations 10 ms, solved twice: B and C tie at
\* 20 ms and the path runs through B, whose edge to D comes first
C8_Witness ==
    /\ pc = "solved_again"
    /\ graph.edges = DiamondEdges
    /\ \A id \in 1..4 : graph.nodes[id].duration_ms = Some(Ms(10))
    /\ CostOf(graph, 2) = CostOf(graph, 3)
    /\ graph.critical_path = <<4, 2, 1>>

SameSolution(r1, r2) ==
    /\ r1.overflow = r2.overflow
    /\ r1.cost = r2.cost
    /\ r1.critical_path = r2.critical_path

NoRepeats(path) ==
    \A i, j \in 1..Len(path) : (path[i] = path[j]) => i = j

WithDuplicateOf(g, i) == [g EXCEPT !.edges = Append(@, @[i])]

\* C9: parallel edges are not double-counted: for every graph, appending a
\* duplicate of one of its edges leaves the cost of every node and the
\* critical path as they are, and no node is on the path twice.
C9_ParallelEdgesNotDoubleCounted ==
    (pc \in {"solved", "solved_again", "aborted"}) =>
        /\ \A i \in 1..Len(graph.edges) :
              SameSolution(compute_critical_path(graph, iter_order),
                           compute_critical_path(WithDuplicateOf(graph, i), iter_order))
        /\ Solved => NoRepeats(graph.critical_path)

\* a graph that already holds an edge twice, with a path along that edge
C9_Witness ==
    /\ Solved
    /\ Len(graph.edges) = 2
    /\ graph.edges[1] = graph.edges[2]
    /\ graph.critical_path = <<graph.edges[1].to, graph.edges[1].from>>
    /\ CostOf(graph, graph.edges[1].from) > 0

Untimed(g) == \A n \in DOMAIN g.nodes : DurationOf(g, n) = 0

\* C10: compute_critical_path leaves an empty critical_path on a graph
\* without nodes, and a critical_path of length exactly 1 on a graph with
\* nodes none of which has a duration (or all of which have duration 0),
\* whatever its edges are.
C10_DegeneratePaths ==
    (pc \in {"solved", "solved_again", "aborted"}) =>
        /\ (DOMAIN graph.nodes = {}) => (Solved /\ graph.critical_path = <<>>)
        /\ (DOMAIN graph.nodes # {} /\ Untimed(graph)) =>
               (Solved /\ Len(graph.critical_path) = 1)

----------------------------------------------------------------------------
(* The order of the phases of one run of main.                             *)

\* the places of main in the order of its text; a run that includes the
\* dependencies goes from "clean" straight to "build"
PhaseOrder ==
    <<"start", "load", "clean", "clean_workspace", "build", "apply_timings",
      "find_target_dir", "render", "done">>

PhaseOf(p) == CHOOSE i \in 1..Len(PhaseOrder) : PhaseOrder[i] = p

Ended == pc \in {"failed", "aborted"}

BeforeTimings == pc \in {"start", "load", "clean", "clean_workspace", "build", "apply_timings"}

NothingTimed(g) ==
    /\ \A id \in DOMAIN g.nodes :
          g.nodes[id].duration_ms = None /\ g.nodes[id].start_ms = None
    /\ g.critical_path = <<>>

\* the graph is the one load_dependency_graph returned for the metadata
Loaded(g) ==
    /\ metadata.exec_ok
    /\ IsSome(metadata.resolve)
    /\ g = load_dependency_graph(metadata, include_deps)

\* the graph is the loaded graph with the timings of a usable report applied
\* and the critical path of the timed graph
Reconciled ==
    /\ metadata.exec_ok
    /\ IsSome(metadata.resolve)
    /\ ~ReportUnusable
    /\ \E r \in {apply_timings(load_dependency_graph(metadata, include_deps),
                               iter_order, report, TRUE)} :
           ~r.overflow /\ r.error = "" /\ graph = r.graph

\* what holds at each place of a run
PhaseState ==
    /\ (pc \in {"start", "load"}) => graph = EmptyGraph
    /\ BeforeTimings => NothingTimed(graph)
    /\ (pc \in {"clean", "clean_workspace", "build", "apply_timings"}) => Loaded(graph)
    /\ (pc \in {"find_target_dir", "render", "done"}) => Reconciled
    /\ Ended <=> outcome # "running"

\* what a step of a run does: it ends the run with an error, or moves to the
\* next place; the graph changes only in the load and in apply_timings
PhaseStep ==
    /\ ~Ended /\ pc # "done"
    /\ \/ pc' \in {"failed", "aborted"}
       \/ /\ pc' \in Range(PhaseOrder)
          /\ \/ PhaseOf(pc') = PhaseOf(pc) + 1
             \/ pc = "clean" /\ include_deps /\ pc' = "build"
          /\ (pc = "clean" /\ pc' = "clean_workspace") => ~include_deps
    /\ (pc' = "aborted") => pc = "apply_timings"
    /\ (graph' # graph) => pc \in {"load", "apply_timings"}
    /\ (pc' = "render") => (pc = "find_target_dir" /\ graph' = graph)
    /\ (pc' = "done") => (pc = "render" /\ graph' = graph)

\* C11: in every run of main the phases occur in the order load, build,
\* apply_timings (which computes the critical path), render, and the first
\* failing phase ends the run: before apply_timings no node has duration_ms
\* or start_ms and critical_path is empty, and write_and_open is reached only
\* with the graph that load_dependency_graph returned and apply_timings
\* reconciled without an error.
C11_PhasesInOrder == []PhaseState /\ [][PhaseStep]_vars

\* a run that rendered a graph with timings and a critical path
C11_Witness ==
    /\ pc = "done"
    /\ outcome = "running"
    /\ graph.critical_path # <<>>
    /\ \E id \in DOMAIN graph.nodes : IsSome(graph.nodes[id].duration_ms)

HasDependencies(g, id) == \E e \in EdgeSet(g) : e.from = id

EdgesWithinNodes(g) ==
    \A e \in EdgeSet(g) : e.from \in DOMAIN g.nodes /\ e.to \in DOMAIN g.nodes

\* C12: on every non-empty acyclic graph whose edges join nodes of the graph
\* (durations are never negative), the first element of critical_path is a node with no dependencies of its own:
\* it is the from of no edge, also when a zero-duration or untimed leaf ties
\* in cost with the dependent above it.
C12_StartsAtLeaf ==
    (Solved /\ Acyclic(graph) /\ EdgesWithinNodes(graph) /\ DOMAIN graph.nodes # {}) =>
        /\ graph.critical_path # <<>>
        /\ ~HasDependencies(graph, graph.critical_path[1])

====
